---- MODULE Spec2Model ----
(***************************************************************************)
(* Giveaway bot (src/app.py): the giveaways table, the scheduler threads   *)
(* of one or more worker processes polling it, the claim step, and         *)
(* conclude_one.  Store and platform calls either return or raise; every   *)
(* call is one step, so that workers interleave between calls.  The        *)
(* creation flow (handle_cmd, submit_modal, create_and_post) handles one   *)
(* request per step; parse_duration and parse_args work on texts given as  *)
(* sequences of characters.                                                *)
(***************************************************************************)
EXTENDS Integers, Sequences, FiniteSets, TLC

\* ---------------------------------------------------------------- bounds
NumWorkers == 2          \* worker processes, each running scheduler()
MaxGiveaways == 2        \* rows the table can hold (ids 1..MaxGiveaways)
MaxTime == 1             \* the clock runs 0..MaxTime minutes
MaxDuration == 1         \* creation requests have 1..MaxDuration minutes
MaxRequested == 2        \* creation requests ask for 1..MaxRequested winners
BatchLimit == 1          \* LIMIT of the due query (25 in the code), scaled
                         \* down so that more rows than one batch can be due
MaxPieces == 3           \* texts for parse_duration have 0..MaxPieces pieces

Workers == 1..NumWorkers
Gids == 1..MaxGiveaways
NoGid == 0
NoWorker == 0
Minute == 60

\* ------------------------------------------------------- platform users
BOT_USER_ID == "B"
Humans == {"u1", "u2"}
Automated == {"a1"}

\* users_info(user=u)["user"]["is_bot"]
is_bot(u) == u \in Automated

Emojis == {"tada", "gift"}

Min(a, b) == IF a <= b THEN a ELSE b
Max(a, b) == IF a >= b THEN a ELSE b

SeqToSet(s) == {s[i] : i \in 1..Len(s)}

\* all orders in which the elements of a finite set can be enumerated
Orders(S) ==
  {s \in [1..Cardinality(S) -> S] : \A i, j \in 1..Cardinality(S) : s[i] = s[j] => i = j}

\* responses of reactions_get: the message's reaction groups, one per emoji
\* name, each with the list of reacting users as the platform reports it
Group(n, us) == [name |-> n, users |-> us]
Responses ==
  { << >>,
    << Group("tada", <<"B">>) >>,
    << Group("tada", <<"B", "u1">>), Group("gift", <<"a1">>) >>,
    << Group("gift", <<"B", "u2">>), Group("tada", <<"B", "u1", "u2", "a1">>) >>,
    << Group("tada", <<"u2", "a1">>), Group("gift", <<"B", "u1", "u1", "u2">>) >> }
FewResponses ==
  { << Group("tada", <<"B">>) >>,
    << Group("tada", <<"B", "u1">>) >> }

\* ------------------------------------------------------------------ text
\* a text is the sequence of its characters
Spaces == {" "}
DigitChars == <<"0", "1", "2", "3", "4", "5", "6", "7", "8", "9">>
UnitChars == {"d", "h", "m"}

SetMin(S) == CHOOSE x \in S : \A y \in S : x <= y
SetMax(S) == CHOOSE x \in S : \A y \in S : x >= y

\* the first position from i on whose character is in cs, Len(s) + 1 if none
FirstIn(s, i, cs) ==
  IF \E k \in i..Len(s) : s[k] \in cs
  THEN SetMin({k \in i..Len(s) : s[k] \in cs})
  ELSE Len(s) + 1

\* the first position from i on whose character is not in cs
FirstNotIn(s, i, cs) ==
  IF \E k \in i..Len(s) : s[k] \notin cs
  THEN SetMin({k \in i..Len(s) : s[k] \notin cs})
  ELSE Len(s) + 1

\* str.strip()
Strip(s) ==
  IF \A k \in 1..Len(s) : s[k] \in Spaces THEN << >>
  ELSE SubSeq(s, FirstNotIn(s, 1, Spaces), SetMax({k \in 1..Len(s) : s[k] \notin Spaces}))

\* the text is taken as it is written
ToLower_Identity(s) == s

\* str.lower(), on the letters that texts are written with here
ToLower(s) ==
  [i \in 1..Len(s) |->
     CASE s[i] = "D" -> "d"
       [] s[i] = "H" -> "h"
       [] s[i] = "M" -> "m"
       [] s[i] = "W" -> "w"
       [] s[i] = "P" -> "p"
       [] OTHER -> s[i]]

\* int() of a string of decimal digits
RECURSIVE IntOf(_)
IntOf(ds) ==
  IF ds = << >> THEN 0
  ELSE 10 * IntOf(SubSeq(ds, 1, Len(ds) - 1))
       + (CHOOSE v \in 0..9 : DigitChars[v + 1] = ds[Len(ds)])

\* ------------------------------------------------------- parse_duration
\* re.findall(r"(\d+)\s*([dhm])", s) from position i on: a match begins at
\* a digit, takes the whole run of digits and the whole run of blanks after
\* it, and needs a unit letter next; the scan goes on behind a match, and one
\* position further where there is none
RECURSIVE FindTokens(_, _)
FindTokens(s, i) ==
  IF i > Len(s) THEN << >>
  ELSE LET j == FirstNotIn(s, i, SeqToSet(DigitChars))
           k == FirstNotIn(s, j, Spaces)
       IN IF j > i /\ k <= Len(s) /\ s[k] \in UnitChars
          THEN << <<SubSeq(s, i, j - 1), s[k]>> >> \o FindTokens(s, k + 1)
          ELSE FindTokens(s, i + 1)

\* lines 72-77
UnitSeconds(unit) ==
  CASE unit = "d" -> 86400
    [] unit = "h" -> 3600
    [] unit = "m" -> 60

RECURSIVE SumTokens(_)
SumTokens(ts) ==
  IF ts = << >> THEN 0
  ELSE IntOf(Head(ts)[1]) * UnitSeconds(Head(ts)[2]) + SumTokens(Tail(ts))

parse_duration(s) == SumTokens(FindTokens(ToLower(Strip(s)), 1))

\* ----------------------------------------------------------- parse_args
\* the clamp without its upper end
Clamp_NoUpper(n) == Max(1, n)

\* max(1, min(50, n)), lines 84 and 261
Clamp(n) == Max(1, Min(50, n))

\* re.search(r"(?:^|\s)-w\s*(\d+)", text): whether a match begins at p, at
\* the start of the text or at a blank; FlagAt is where its "-w" stands
FlagAt(s, p) == IF s[p] \in Spaces THEN p + 1 ELSE p
DigitsAt(s, p) == FirstNotIn(s, FlagAt(s, p) + 2, Spaces)
MatchEnd(s, p) == FirstNotIn(s, DigitsAt(s, p), SeqToSet(DigitChars))
MatchesAt(s, p) ==
  /\ s[p] \in Spaces \/ p = 1
  /\ FlagAt(s, p) + 1 <= Len(s)
  /\ s[FlagAt(s, p)] = "-"
  /\ s[FlagAt(s, p) + 1] = "w"
  /\ MatchEnd(s, p) > DigitsAt(s, p)

\* text.split(maxsplit=1): the first word, and the rest behind the blanks
\* that follow it
SplitOnce(text) ==
  LET a == FirstNotIn(text, 1, Spaces)
      b == FirstIn(text, a, Spaces)
      c == FirstNotIn(text, b, Spaces)
  IN [dur |-> SubSeq(text, a, b - 1), title |-> SubSeq(text, c, Len(text))]

parse_args(text) ==
  IF \E p \in 1..Len(text) : MatchesAt(text, p)
  THEN LET p == SetMin({q \in 1..Len(text) : MatchesAt(text, q)})
           rest == Strip(SubSeq(text, 1, p - 1) \o SubSeq(text, MatchEnd(text, p), Len(text)))
       IN [dur |-> SplitOnce(rest).dur,
           title |-> SplitOnce(rest).title,
           winners |-> Clamp(IntOf(SubSeq(text, DigitsAt(text, p), MatchEnd(text, p) - 1)))]
  ELSE [dur |-> SplitOnce(text).dur, title |-> SplitOnce(text).title, winners |-> 1]

\* int(winners_raw), line 261: an optional sign and decimal digits, anything
\* else raises ValueError
IsInt(s) ==
  /\ s # << >>
  /\ LET ds == IF s[1] \in {"-", "+"} THEN Tail(s) ELSE s
     IN ds # << >> /\ \A k \in 1..Len(ds) : ds[k] \in SeqToSet(DigitChars)
IntValue(s) ==
  IF s[1] = "-" THEN 0 - IntOf(Tail(s))
  ELSE IF s[1] = "+" THEN IntOf(Tail(s))
  ELSE IntOf(s)

\* ------------------------------------------------------------ the state
VARIABLES
  now,            \* time.time(), epoch seconds
  status,         \* giveaways.status per id; "none": no such row yet
  end_ts,         \* giveaways.end_ts
  winners_count,  \* giveaways.winners_count
  emoji,          \* giveaways.emoji
  channel_id,     \* giveaways.channel_id
  message_ts,     \* giveaways.message_ts
  announcements,  \* the announcements posted: channel and ts of each
  reply,          \* what the last creation request ended with, "" when none has
  req,            \* the creation request received and not yet handled
  pin,            \* parsing: the text given, as a sequence of pieces
  pout,           \* parsing: what the parser returned for it
  rowlock,        \* the worker whose open transaction holds the row's lock
  pc,             \* each worker's position in scheduler / conclude_one
  wnow,           \* scheduler: now, 0 outside an iteration
  rows,           \* scheduler: the rows of the batch not yet iterated
  gid,            \* scheduler: the row being handled
  updated,        \* scheduler: whether the claim returned a row
  resp,           \* conclude_one: resp["message"]["reactions"]
  users,          \* conclude_one: users
  failed,         \* conclude_one: the users whose users_info call raised
  valid,          \* conclude_one: valid
  eff,            \* conclude_one: winners_count after line 116
  posted,         \* the messages this invocation of conclude_one has posted
  raised,         \* the calls of this invocation that raised
  wrote,          \* the status this invocation wrote, "" when none
  polled,         \* history: per row, the workers that attempted to claim it
  claimOk,        \* history: per row, the workers whose claim returned a row
  nconcl          \* history: per row, the invocations of conclude_one: 0, 1, or
                  \* 2 for more than one

store == <<status, end_ts, winners_count, emoji>>
sched == <<wnow, rows, gid, updated>>
concl == <<resp, users, failed, valid, eff, posted, raised, wrote>>
hist == <<polled, claimOk, nconcl>>
front == <<channel_id, message_ts, announcements, reply, req>>
scratch == <<pin, pout>>
vars == <<now, store, front, scratch, rowlock, pc, sched, concl, hist>>

NoChannel == ""
NoReq == [kind |-> "none"]
NoOut == [op |-> "none"]

NoMsg == << >>
Msg(k, ws, sel, el) == [kind |-> k, winners |-> ws, selected |-> sel, eligible |-> el]

\* the processes have started on an empty table
Started ==
  /\ now = 0
  /\ status = [g \in Gids |-> "none"]
  /\ end_ts = [g \in Gids |-> 0]
  /\ winners_count = [g \in Gids |-> 0]
  /\ emoji = [g \in Gids |-> ""]
  /\ channel_id = [g \in Gids |-> NoChannel]
  /\ message_ts = [g \in Gids |-> 0]
  /\ announcements = {}
  /\ reply = ""
  /\ req = NoReq
  /\ rowlock = [g \in Gids |-> NoWorker]
  /\ pc = [w \in Workers |-> "poll"]
  /\ wnow = [w \in Workers |-> 0]
  /\ rows = [w \in Workers |-> {}]
  /\ gid = [w \in Workers |-> NoGid]
  /\ updated = [w \in Workers |-> FALSE]
  /\ resp = [w \in Workers |-> << >>]
  /\ users = [w \in Workers |-> << >>]
  /\ failed = [w \in Workers |-> {}]
  /\ valid = [w \in Workers |-> << >>]
  /\ eff = [w \in Workers |-> 0]
  /\ posted = [w \in Workers |-> NoMsg]
  /\ raised = [w \in Workers |-> {}]
  /\ wrote = [w \in Workers |-> ""]
  /\ polled = [g \in Gids |-> {}]
  /\ claimOk = [g \in Gids |-> {}]
  /\ nconcl = [g \in Gids |-> 0]

Init == Started /\ pin = << >> /\ pout = NoOut

\* ------------------------------------------------------------ the clock
\* the clock is read at whole minutes
Tick ==
  /\ now < Minute * MaxTime
  /\ now' = now + Minute
  /\ UNCHANGED <<store, front, scratch, rowlock, pc, sched, concl, hist>>

\* ------------------------------------------------------- creation flow
\* create_and_post: end_ts is the time read plus the duration; the INSERT
\* gives the row the next serial id and status 'open'
NextId == IF \E g \in Gids : status[g] = "none"
          THEN CHOOSE g \in Gids : status[g] = "none" /\ \A h \in Gids : h < g => status[h] # "none"
          ELSE NoGid

\* the end time without the duration
EndTs_NoDuration(t, seconds) == t

\* line 276
EndTs(t, seconds) == t + seconds

\* the table without its constraint
KeyTaken_NoConstraint(channel, ts) == FALSE

\* UNIQUE(channel_id, message_ts), line 40: an INSERT with a key the table
\* holds raises and stores nothing
KeyTaken(channel, ts) ==
  \E g \in Gids : status[g] # "none" /\ channel_id[g] = channel /\ message_ts[g] = ts

\* the platform calls of create_and_post, one of which may raise ("ok": none)
Outcomes == {"ok", "post", "react", "confirm"}

\* lines 275-309; ts: the ts of the posted announcement as the platform
\* returns it, o: the platform call that raises.  The ids left unused by a
\* failed INSERT are not modelled: rows get the ids 1, 2, ... in order
create_and_post(channel, ts, seconds, em, winners, o) ==
  /\ NextId # NoGid
  /\ IF o = "post"
     THEN /\ reply' = "SlackApiError"
          /\ UNCHANGED <<store, channel_id, message_ts, announcements>>
     ELSE /\ announcements' = announcements \cup {<<channel, ts>>}
          /\ IF KeyTaken(channel, ts)
             THEN /\ reply' = "UniqueViolation"
                  /\ UNCHANGED <<store, channel_id, message_ts>>
             ELSE /\ status' = [status EXCEPT ![NextId] = "open"]
                  /\ end_ts' = [end_ts EXCEPT ![NextId] = EndTs(now, seconds)]
                  /\ winners_count' = [winners_count EXCEPT ![NextId] = winners]
                  /\ emoji' = [emoji EXCEPT ![NextId] = em]
                  /\ channel_id' = [channel_id EXCEPT ![NextId] = channel]
                  /\ message_ts' = [message_ts EXCEPT ![NextId] = ts]
                  /\ reply' = IF o = "confirm" THEN "SlackApiError" ELSE "started"
  /\ UNCHANGED <<now, scratch, rowlock, pc, sched, concl, hist>>

\* lines 190-242: the modal is opened, nothing is stored or posted
open_modal ==
  /\ reply' = "modal"
  /\ UNCHANGED <<now, store, channel_id, message_ts, announcements, scratch, rowlock, pc,
                 sched, concl, hist>>

\* line 182 without the check of the title
CmdValid_AnyTitle(seconds, title) == seconds > 0

\* line 182
CmdValid(seconds, title) == seconds > 0 /\ title # << >>

\* lines 174-187: /giveaway with the text given
handle_cmd(text, channel, ts, o) ==
  IF Strip(text) # << >>
     /\ CmdValid(parse_duration(parse_args(Strip(text)).dur), parse_args(Strip(text)).title)
  THEN create_and_post(channel, ts, parse_duration(parse_args(Strip(text)).dur), "tada",
                       parse_args(Strip(text)).winners, o)
  ELSE open_modal

\* lines 260-263: the winners field, "1" when it was left empty
ModalWinners(winners_raw) ==
  LET wr == Strip(IF winners_raw = << >> THEN <<"1">> ELSE winners_raw)
  IN IF IsInt(wr) THEN Clamp(IntValue(wr)) ELSE 1

\* lines 245-272: the modal is submitted with the values given; the emoji is
\* given by its plain name, "" when the field was left empty
submit_modal(title, dur, winners_raw, em, channel, ts, o) ==
  IF parse_duration(Strip(dur)) <= 0 \/ Strip(title) = << >> \/ channel = NoChannel
  THEN /\ reply' = "invalid"
       /\ UNCHANGED <<now, store, channel_id, message_ts, announcements, scratch, rowlock,
                      pc, sched, concl, hist>>
  ELSE create_and_post(channel, ts, parse_duration(Strip(dur)),
                       IF em = "" THEN "tada" ELSE em, ModalWinners(winners_raw), o)

\* ------------------------------------------------------------ the store
\* mutant: the query without its end_ts condition
DueOpen_AnyOpen(t) == {g \in Gids : status[g] = "open"}

\* SELECT ... WHERE status='open' AND end_ts <= %s
DueOpen(t) == {g \in Gids : status[g] = "open" /\ end_ts[g] <= t}

\* ... LIMIT n: as many due rows as the limit allows, in no specified order
Batches(t) ==
  {B \in SUBSET DueOpen(t) : Cardinality(B) = Min(BatchLimit, Cardinality(DueOpen(t)))}

\* UPDATE ... WHERE id=%s AND status='open' RETURNING id: whether a row matches
ClaimMatches(g) == status[g] = "open"

\* db_query never commits and its connection is not in autocommit mode: the
\* UPDATE runs in a transaction that c.close() ends by rolling it back, so
\* the stored status is the one from before the statement
db_query_close(g) == status

\* mutant: the UPDATE of db_execute is not stored
db_execute_update_Lost(g, st) == status

\* db_execute runs in autocommit mode: the UPDATE is stored when it returns
db_execute_update(g, st) == [status EXCEPT ![g] = st]

\* -------------------------------------------------------- conclude_one
\* lines 99-103: the users of the first reaction group named like the emoji
RECURSIVE FindUsers(_, _)
FindUsers(rs, em) ==
  IF rs = << >> THEN << >>
  ELSE IF Head(rs).name = em THEN Head(rs).users
  ELSE FindUsers(Tail(rs), em)

\* mutant: the loop over users itself, without set()
IterationOrders_List(us) == {us}

\* line 106, for u in set(users): each reacting user once, in any order
IterationOrders(us) == Orders(SeqToSet(us))

\* a raising lookup ends the loop with nobody valid
FilterValid_AllOrNothing(order, fl) ==
  IF fl # {} THEN << >>
  ELSE SelectSeq(order, LAMBDA u : u # BOT_USER_ID /\ ~is_bot(u))

\* lines 105-114 over one iteration order; fl: the users whose lookup raised
RECURSIVE FilterValid(_, _)
FilterValid(order, fl) ==
  IF order = << >> THEN << >>
  ELSE LET u == Head(order)
           rest == FilterValid(Tail(order), fl)
       IN IF u = BOT_USER_ID THEN rest
          ELSE IF u \in fl THEN rest
          ELSE IF ~is_bot(u) THEN <<u>> \o rest
          ELSE rest

\* mutant: the clamp against one less than the number of valid users
EffectiveWinners_OffByOne(wc, n) == IF n > 0 THEN Min(Max(1, wc), n - 1) ELSE 0

\* line 116
EffectiveWinners(wc, n) == IF n > 0 THEN Min(Max(1, wc), n) ELSE 0

\* random.sample(valid, k): k elements at pairwise different positions
Sample(v, k) ==
  IF k < 0 \/ k > Len(v) THEN {}
  ELSE {[i \in 1..k |-> v[p[i]]] :
          p \in {q \in [1..k -> 1..Len(v)] : \A i, j \in 1..k : q[i] = q[j] => i = j}}

\* the locals of conclude_one, as they are outside an invocation
ConclIdle(w) ==
  /\ resp' = [resp EXCEPT ![w] = << >>]
  /\ users' = [users EXCEPT ![w] = << >>]
  /\ failed' = [failed EXCEPT ![w] = {}]
  /\ valid' = [valid EXCEPT ![w] = << >>]
  /\ eff' = [eff EXCEPT ![w] = 0]
  /\ posted' = [posted EXCEPT ![w] = NoMsg]
  /\ raised' = [raised EXCEPT ![w] = {}]
  /\ wrote' = [wrote EXCEPT ![w] = ""]

\* ----------------------------------------------------------- scheduler
\* the for loop goes on to the next row, or the iteration ends in the sleep
NextRow(w, left) ==
  /\ pc' = [pc EXCEPT ![w] = IF left = {} THEN "sleep" ELSE "loop"]
  /\ wnow' = [wnow EXCEPT ![w] = IF left = {} THEN 0 ELSE wnow[w]]
  /\ gid' = [gid EXCEPT ![w] = NoGid]
  /\ updated' = [updated EXCEPT ![w] = FALSE]

\* the exception ends the thread's loop instead of being swallowed
IterationRaised_EndsLoop(w) ==
  /\ pc' = [pc EXCEPT ![w] = "ended"]
  /\ wnow' = [wnow EXCEPT ![w] = 0]
  /\ rows' = [rows EXCEPT ![w] = {}]
  /\ gid' = [gid EXCEPT ![w] = NoGid]
  /\ updated' = [updated EXCEPT ![w] = FALSE]

\* except Exception: pass, then the sleep: the rest of the batch is dropped
IterationRaised(w) ==
  /\ pc' = [pc EXCEPT ![w] = "sleep"]
  /\ wnow' = [wnow EXCEPT ![w] = 0]
  /\ rows' = [rows EXCEPT ![w] = {}]
  /\ gid' = [gid EXCEPT ![w] = NoGid]
  /\ updated' = [updated EXCEPT ![w] = FALSE]

\* line 171 returns and the loop starts its next iteration
Wake(w) ==
  /\ pc[w] = "sleep"
  /\ pc' = [pc EXCEPT ![w] = "poll"]
  /\ UNCHANGED <<now, front, scratch, store, rowlock, sched, concl, hist>>

\* lines 156-160: read the clock, query the due open rows
Poll(w) ==
  /\ pc[w] = "poll"
  /\ \E B \in Batches(now) :
       /\ rows' = [rows EXCEPT ![w] = B]
       /\ pc' = [pc EXCEPT ![w] = IF B = {} THEN "sleep" ELSE "loop"]
       /\ wnow' = [wnow EXCEPT ![w] = IF B = {} THEN 0 ELSE now]
  /\ UNCHANGED <<now, front, scratch, store, rowlock, gid, updated, concl, hist>>

\* the due query raises
PollRaise(w) ==
  /\ pc[w] = "poll"
  /\ IterationRaised(w)
  /\ UNCHANGED <<now, front, scratch, store, rowlock, concl, hist>>

\* lines 161-166, cur.execute of the claim: the UPDATE waits while another
\* transaction holds the row's lock, then matches the row if it is open and
\* keeps the row locked until its own transaction ends
ClaimExecute(w) ==
  /\ pc[w] = "loop"
  /\ \E g \in rows[w] :
       /\ rowlock[g] = NoWorker
       /\ gid' = [gid EXCEPT ![w] = g]
       /\ rows' = [rows EXCEPT ![w] = rows[w] \ {g}]
       /\ updated' = [updated EXCEPT ![w] = ClaimMatches(g)]
       /\ rowlock' = [rowlock EXCEPT ![g] = IF ClaimMatches(g) THEN w ELSE NoWorker]
       /\ polled' = [polled EXCEPT ![g] = polled[g] \cup {w}]
       /\ claimOk' = [claimOk EXCEPT ![g] = IF ClaimMatches(g) THEN claimOk[g] \cup {w}
                                            ELSE claimOk[g]]
  /\ pc' = [pc EXCEPT ![w] = "claim_close"]
  /\ UNCHANGED <<now, front, scratch, store, wnow, concl, nconcl>>

\* the claim's db_query raises before its statement ran
ClaimRaise(w) ==
  /\ pc[w] = "loop"
  /\ IterationRaised(w)
  /\ UNCHANGED <<now, front, scratch, store, rowlock, concl, hist>>

\* conclude_one is entered whatever the claim returned
ClaimReturnedRow_Always(w) == TRUE

\* line 167, if updated: the claim returned a row
ClaimReturnedRow(w) == updated[w]

\* lines 60-63 and 167-168: the claim's connection is closed, and
\* conclude_one is entered if the claim returned a row
ClaimClose(w) ==
  /\ pc[w] = "claim_close"
  /\ status' = db_query_close(gid[w])
  /\ rowlock' = [rowlock EXCEPT ![gid[w]] = NoWorker]
  /\ IF ClaimReturnedRow(w)
     THEN /\ pc' = [pc EXCEPT ![w] = "reactions_get"]
          /\ wnow' = wnow
          /\ nconcl' = [nconcl EXCEPT ![gid[w]] = Min(2, nconcl[gid[w]] + 1)]
          /\ UNCHANGED <<gid, updated>>
     ELSE /\ NextRow(w, rows[w])
          /\ UNCHANGED nconcl
  /\ UNCHANGED <<now, front, scratch, end_ts, winners_count, emoji, rows, concl, polled, claimOk>>

\* ------------------------------------------------- conclude_one, steps
\* line 98 returns
ReactionsGet(w, rs) ==
  /\ pc[w] = "reactions_get"
  /\ \E r \in rs :
       /\ resp' = [resp EXCEPT ![w] = r]
       /\ users' = [users EXCEPT ![w] = FindUsers(r, emoji[gid[w]])]
  /\ pc' = [pc EXCEPT ![w] = "users_info"]
  /\ UNCHANGED <<now, front, scratch, store, rowlock, sched, failed, valid, eff, posted, raised, wrote, hist>>

\* line 98 raises
ReactionsGetRaise(w) ==
  /\ pc[w] = "reactions_get"
  /\ raised' = [raised EXCEPT ![w] = raised[w] \cup {"reactions_get"}]
  /\ pc' = [pc EXCEPT ![w] = "notice"]
  /\ UNCHANGED <<now, front, scratch, store, rowlock, sched, resp, users, failed, valid, eff, posted, wrote, hist>>

\* lines 105-116: the lookups of the reacting users, some of which may raise
UsersInfo(w) ==
  /\ pc[w] = "users_info"
  /\ \E order \in IterationOrders(users[w]) :
     \E fl \in SUBSET (SeqToSet(order) \ {BOT_USER_ID}) :
       /\ failed' = [failed EXCEPT ![w] = fl]
       /\ valid' = [valid EXCEPT ![w] = FilterValid(order, fl)]
       /\ eff' = [eff EXCEPT ![w] =
                    EffectiveWinners(winners_count[gid[w]], Len(FilterValid(order, fl)))]
  /\ pc' = [pc EXCEPT ![w] = "post"]
  /\ UNCHANGED <<now, front, scratch, store, rowlock, sched, resp, users, posted, raised, wrote, hist>>

\* lines 118-124
PostNoEntries(w) ==
  /\ pc[w] = "post"
  /\ eff[w] = 0
  /\ posted' = [posted EXCEPT ![w] = Append(posted[w], Msg("no_entries", << >>, 0, 0))]
  /\ pc' = [pc EXCEPT ![w] = "write_closed"]
  /\ UNCHANGED <<now, front, scratch, store, rowlock, sched, resp, users, failed, valid, eff, raised, wrote, hist>>

\* lines 125-133
PostWinners(w) ==
  /\ pc[w] = "post"
  /\ eff[w] # 0
  /\ \E winners \in Sample(valid[w], eff[w]) :
       posted' = [posted EXCEPT ![w] =
                    Append(posted[w], Msg("winners", winners, eff[w], Len(valid[w])))]
  /\ pc' = [pc EXCEPT ![w] = "write_closed"]
  /\ UNCHANGED <<now, front, scratch, store, rowlock, sched, resp, users, failed, valid, eff, raised, wrote, hist>>

\* random.sample or chat_postMessage raises
PostRaise(w) ==
  /\ pc[w] = "post"
  /\ raised' = [raised EXCEPT ![w] = raised[w] \cup {"post"}]
  /\ pc' = [pc EXCEPT ![w] = "notice"]
  /\ UNCHANGED <<now, front, scratch, store, rowlock, sched, resp, users, failed, valid, eff, posted, wrote, hist>>

\* lines 135-137 return
WriteClosed(w) ==
  /\ pc[w] = "write_closed"
  /\ rowlock[gid[w]] = NoWorker
  /\ status' = db_execute_update(gid[w], "closed")
  /\ wrote' = [wrote EXCEPT ![w] = "closed"]
  /\ pc' = [pc EXCEPT ![w] = "return"]
  /\ UNCHANGED <<now, front, scratch, end_ts, winners_count, emoji, rowlock, sched, resp, users, failed,
                 valid, eff, posted, raised, hist>>

\* lines 135-137 raise
WriteClosedRaise(w) ==
  /\ pc[w] = "write_closed"
  /\ raised' = [raised EXCEPT ![w] = raised[w] \cup {"write_closed"}]
  /\ pc' = [pc EXCEPT ![w] = "notice"]
  /\ UNCHANGED <<now, front, scratch, store, rowlock, sched, resp, users, failed, valid, eff, posted, wrote, hist>>

\* lines 139-145 return
PostNotice(w) ==
  /\ pc[w] = "notice"
  /\ posted' = [posted EXCEPT ![w] = Append(posted[w], Msg("notice", << >>, 0, 0))]
  /\ pc' = [pc EXCEPT ![w] = "write_error"]
  /\ UNCHANGED <<now, front, scratch, store, rowlock, sched, resp, users, failed, valid, eff, raised, wrote, hist>>

\* lines 146-147
PostNoticeRaise(w) ==
  /\ pc[w] = "notice"
  /\ raised' = [raised EXCEPT ![w] = raised[w] \cup {"notice"}]
  /\ pc' = [pc EXCEPT ![w] = "write_error"]
  /\ UNCHANGED <<now, front, scratch, store, rowlock, sched, resp, users, failed, valid, eff, posted, wrote, hist>>

\* lines 148-150 return
WriteError(w) ==
  /\ pc[w] = "write_error"
  /\ rowlock[gid[w]] = NoWorker
  /\ status' = db_execute_update(gid[w], "error")
  /\ wrote' = [wrote EXCEPT ![w] = "error"]
  /\ pc' = [pc EXCEPT ![w] = "return"]
  /\ UNCHANGED <<now, front, scratch, end_ts, winners_count, emoji, rowlock, sched, resp, users, failed,
                 valid, eff, posted, raised, hist>>

\* lines 148-150 raise: the exception leaves conclude_one and is caught by
\* the scheduler's except
WriteErrorRaise(w) ==
  /\ pc[w] = "write_error"
  /\ IterationRaised(w)
  /\ ConclIdle(w)
  /\ UNCHANGED <<now, front, scratch, store, rowlock, hist>>

\* conclude_one returns to the for loop
Return(w) ==
  /\ pc[w] = "return"
  /\ NextRow(w, rows[w])
  /\ ConclIdle(w)
  /\ UNCHANGED <<now, front, scratch, store, rowlock, rows, hist>>

\* --------------------------------------------------- the specification
\* a creation request that passed validation
Create(emojis, maxw) ==
  \E minutes \in 1..MaxDuration, em \in emojis, winners \in 1..maxw :
    /\ create_and_post("C1", NextId, Minute * minutes, em, winners, "ok")
    /\ UNCHANGED req

\* one step of worker w; rs: the responses reactions_get can give
Worker(w, rs) ==
  \/ Wake(w)
  \/ Poll(w)
  \/ PollRaise(w)
  \/ ClaimExecute(w)
  \/ ClaimRaise(w)
  \/ ClaimClose(w)
  \/ ReactionsGet(w, rs)
  \/ ReactionsGetRaise(w)
  \/ UsersInfo(w)
  \/ PostNoEntries(w)
  \/ PostWinners(w)
  \/ PostRaise(w)
  \/ WriteClosed(w)
  \/ WriteClosedRaise(w)
  \/ PostNotice(w)
  \/ PostNoticeRaise(w)
  \/ WriteError(w)
  \/ WriteErrorRaise(w)
  \/ Return(w)

\* several workers on one table: giveaways started with /giveaway (emoji
\* "tada"), reactions from the bot's own and at most one entrant
Next ==
  \/ Tick
  \/ Create({"tada"}, 1)
  \/ \E w \in Workers : Worker(w, FewResponses)

Spec == Init /\ [][Next]_vars

\* every worker's thread keeps running: a call returns or raises, and the
\* loop goes on
LiveSpec == Spec /\ \A w \in Workers : WF_vars(Worker(w, FewResponses))

\* the same table polled by one worker whose thread keeps running
NextLive ==
  \/ Tick
  \/ Create({"tada"}, 1)
  \/ Worker(1, FewResponses)

LiveOne == Init /\ [][NextLive]_vars /\ WF_vars(Worker(1, FewResponses))

\* the first creation request on an empty table
CreateFirst(emojis, maxw) == NextId = 1 /\ Create(emojis, maxw)

\* one worker and one giveaway, of any emoji and size, and every reaction
\* response
NextOne ==
  \/ Tick
  \/ CreateFirst(Emojis, MaxRequested)
  \/ Worker(1, Responses)

SpecOne == Init /\ [][NextOne]_vars

\* the same, the worker's thread running on
LiveFirst == SpecOne /\ WF_vars(Worker(1, Responses))

\* two workers and one giveaway started with /giveaway
NextTwo ==
  \/ Tick
  \/ CreateFirst({"tada"}, 1)
  \/ \E w \in {1, 2} : Worker(w, FewResponses)

SpecTwo == Init /\ [][NextTwo]_vars

\* ------------------------------------------------- creation requests
\* /giveaway texts, each with what it says: whether it has a -w flag and the
\* flag's number, the seconds of its duration, whether it has a title
CmdForm(text, flagged, n, seconds, titled) ==
  [text |-> text, flagged |-> flagged, n |-> n, seconds |-> seconds, titled |-> titled]
CmdForms ==
  { CmdForm(<<"1", "m", " ", "P">>, FALSE, 0, 60, TRUE),
    CmdForm(<<" ", "1", "M", " ", "P", " ">>, FALSE, 0, 60, TRUE),
    CmdForm(<<"-", "w", " ", "2", " ", "1", "m", " ", "P">>, TRUE, 2, 60, TRUE),
    CmdForm(<<"1", "m", " ", "P", " ", "-", "w", "0">>, TRUE, 0, 60, TRUE),
    CmdForm(<<"1", "m", " ", "-", "w", "9", "9", " ", "P">>, TRUE, 99, 60, TRUE),
    CmdForm(<<"1", "m", " ", "-", "w", " ", "3">>, TRUE, 3, 60, FALSE),
    CmdForm(<<"1", "m">>, FALSE, 0, 60, FALSE),
    CmdForm(<<"0", "m", " ", "P">>, FALSE, 0, 0, TRUE),
    CmdForm(<<"P", " ", "1", "m">>, FALSE, 0, 0, TRUE),
    CmdForm(<< >>, FALSE, 0, 0, FALSE) }

\* submitted modals, each with what its fields say: whether the title is
\* non-blank, the seconds of the duration, whether the winners field is an
\* integer and which
ModalForm(title, titled, dur, seconds, winners, isint, n, em) ==
  [title |-> title, titled |-> titled, dur |-> dur, seconds |-> seconds,
   winners |-> winners, isint |-> isint, n |-> n, emoji |-> em]
ModalForms ==
  { ModalForm(<<"P">>, TRUE, <<"1", "m">>, 60, <<"2">>, TRUE, 2, ""),
    ModalForm(<<" ", "P">>, TRUE, <<"1", "m", " ">>, 60, <<"9", "9">>, TRUE, 99, "gift"),
    ModalForm(<<"P">>, TRUE, <<"1", "m">>, 60, <<"0">>, TRUE, 0, ""),
    ModalForm(<<"P">>, TRUE, <<"1", "m">>, 60, <<"-", "3">>, TRUE, 0 - 3, ""),
    ModalForm(<<"P">>, TRUE, <<"1", "m">>, 60, <<"x">>, FALSE, 0, "gift"),
    ModalForm(<<"P">>, TRUE, <<"1", "m">>, 60, << >>, FALSE, 0, ""),
    ModalForm(<<" ">>, FALSE, <<"1", "m">>, 60, <<"2">>, TRUE, 2, ""),
    ModalForm(<<"P">>, TRUE, <<"0", "m">>, 0, <<"2">>, TRUE, 2, ""),
    ModalForm(<<"P">>, TRUE, <<"x">>, 0, <<"2">>, TRUE, 2, "") }

Channels == {"C1"}

\* the ts values the platform gives to posted messages
Stamps == 1..MaxGiveaways

\* the requests that can arrive
Requests ==
  {[kind |-> "cmd", form |-> f, channel |-> c] : f \in CmdForms, c \in Channels}
  \cup
  {[kind |-> "modal", form |-> f, channel |-> c] :
     f \in ModalForms, c \in Channels \cup {NoChannel}}

\* one of the requests rs arrives, and has no reply yet
Receive(rs) ==
  /\ req = NoReq
  /\ req' \in rs
  /\ reply' = ""
  /\ UNCHANGED <<now, store, channel_id, message_ts, announcements, scratch, rowlock,
                 pc, sched, concl, hist>>

\* one of the requests rs arrives while the table holds at most one giveaway
ReceiveFirst(rs) == NextId \in {1, 2} /\ Receive(rs)

\* the pending request is handled, with the platform answering its calls
HandleCmd ==
  /\ req # NoReq
  /\ req.kind = "cmd"
  /\ \E ts \in Stamps, o \in Outcomes : handle_cmd(req.form.text, req.channel, ts, o)
  /\ req' = NoReq

HandleModal ==
  /\ req # NoReq
  /\ req.kind = "modal"
  /\ \E ts \in Stamps, o \in Outcomes :
       submit_modal(req.form.title, req.form.dur, req.form.winners, req.form.emoji,
                    req.channel, ts, o)
  /\ req' = NoReq

\* the creation flow on its own, up to its second giveaway
NextCreate ==
  \/ Tick
  \/ ReceiveFirst(Requests)
  \/ HandleCmd
  \/ HandleModal

SpecCreate == Init /\ [][NextCreate]_vars

\* the same /giveaway command over and over, and one worker
PlainCmd == [kind |-> "cmd", form |-> CmdForm(<<"1", "m", " ", "P">>, FALSE, 0, 60, TRUE),
             channel |-> "C1"]
NextRepeat ==
  \/ Tick
  \/ ReceiveFirst({PlainCmd})
  \/ HandleCmd
  \/ Worker(1, FewResponses)

SpecRepeat == Init /\ [][NextRepeat]_vars

\* ------------------------------------------------- parse_duration alone
\* pieces of text, each with the token it is: its number and unit, no unit
\* for a piece that is no token
Piece(text, n, unit) == [text |-> text, n |-> n, unit |-> unit]
Pieces ==
  { Piece(<<"1", "h">>, 1, "h"),
    Piece(<<"2", "H">>, 2, "h"),
    Piece(<<"1", "d">>, 1, "d"),
    Piece(<<"3", "0", "m">>, 30, "m"),
    Piece(<<"4", "5", " ", "m">>, 45, "m"),
    Piece(<<"x">>, 0, ""),
    Piece(<<" ">>, 0, "") }

DurationInputs == UNION {[1..n -> Pieces] : n \in 0..MaxPieces}

\* the text that a sequence of pieces makes
RECURSIVE Text(_)
Text(ps) == IF ps = << >> THEN << >> ELSE Head(ps).text \o Text(Tail(ps))

InitParse == Started /\ pin \in DurationInputs /\ pout = NoOut

ParseWhole ==
  /\ pout' = [op |-> "whole", total |-> parse_duration(Text(pin))]
  /\ UNCHANGED <<now, store, front, pin, rowlock, pc, sched, concl, hist>>

\* the same pieces in another order
ParseReordered ==
  /\ \E p \in Orders(1..Len(pin)) :
       pout' = [op |-> "reordered",
                total |-> parse_duration(Text([i \in 1..Len(pin) |-> pin[p[i]]]))]
  /\ UNCHANGED <<now, store, front, pin, rowlock, pc, sched, concl, hist>>

\* the pieces in two parts, each parsed by itself
ParseParts ==
  /\ \E k \in 0..Len(pin) :
       pout' = [op |-> "parts",
                left |-> parse_duration(Text(SubSeq(pin, 1, k))),
                right |-> parse_duration(Text(SubSeq(pin, k + 1, Len(pin))))]
  /\ UNCHANGED <<now, store, front, pin, rowlock, pc, sched, concl, hist>>

NextParse ==
  \/ ParseWhole
  \/ ParseReordered
  \/ ParseParts

SpecParse == InitParse /\ [][NextParse]_vars

\* =============================================================== claims
Final == {"closed", "error"}

\* C1: of the workers that attempt the claim step on an open row, exactly
\* one gets a row back: never two, and one once every worker has tried
C1_ExactlyOneClaim ==
  \A g \in Gids :
    /\ Cardinality(claimOk[g]) <= 1
    /\ polled[g] = Workers => Cardinality(claimOk[g]) = 1

\* C2: conclude_one is invoked at most once for each giveaway id
C2_ConcludedAtMostOnce == \A g \in Gids : nconcl[g] <= 1

\* C3: a stored status of closed or error is never changed again
C3_FinalIsFinal ==
  [][\A g \in Gids : status[g] \in Final => status'[g] = status[g]]_vars

\* C4: a stored status changes only open -> processing (by the claim step),
\* processing -> closed or processing -> error; rows are created open
C4_ForwardOnly ==
  [][\A g \in Gids :
       status'[g] # status[g] =>
         \/ status[g] = "none" /\ status'[g] = "open"
         \/ /\ status[g] = "open" /\ status'[g] = "processing"
            /\ \E w \in Workers : pc[w] \in {"loop", "claim_close"} /\ gid'[w] = g
         \/ status[g] = "processing" /\ status'[g] \in Final]_vars

\* the rows worker w has polled and not yet finished with
InHand(w) == rows[w] \cup (IF gid[w] = NoGid THEN {} ELSE {gid[w]})

\* C6: a row is claimed and concluded only when the poll that returned it
\* read a time at or after its end_ts, and no row leaves open before its
\* end_ts
C6_OnlyDueConcluded ==
  /\ \A w \in Workers : \A g \in InHand(w) :
       /\ end_ts[g] <= wnow[w]
       /\ wnow[w] <= now
       /\ status[g] # "none"
  /\ \A g \in Gids : status[g] \notin {"none", "open"} => end_ts[g] <= now

\* a row was concluded by an iteration that read just its end_ts as the time
C6_Witness ==
  \E w \in Workers :
    /\ pc[w] = "return"
    /\ status[gid[w]] \in Final
    /\ end_ts[gid[w]] = wnow[w]

\* the users that reacted with emoji em, by the response rs
Reacted(rs, em) ==
  UNION {SeqToSet(rs[i].users) : i \in {j \in 1..Len(rs) : rs[j].name = em}}

\* the eligible candidates of w's invocation: reacting users that are not the
\* bot itself, were resolved, and are not flagged as automated
Eligible(w) ==
  {u \in Reacted(resp[w], emoji[gid[w]]) :
     u # BOT_USER_ID /\ u \notin failed[w] /\ u \notin Automated}

Distinct(s) == \A i, j \in 1..Len(s) : s[i] = s[j] => i = j

\* the messages of one kind that w's invocation has posted
Posted(w, k) == {posted[w][i] : i \in {j \in 1..Len(posted[w]) : posted[w][j].kind = k}}

\* C7: the winners of every winners message are pairwise distinct users that
\* reacted with the giveaway's emoji, none of them the bot or automated
C7_WinnersValid ==
  \A w \in Workers : \A m \in Posted(w, "winners") :
    /\ Distinct(m.winners)
    /\ \A i \in 1..Len(m.winners) :
         /\ m.winners[i] \in Reacted(resp[w], emoji[gid[w]])
         /\ m.winners[i] # BOT_USER_ID
         /\ m.winners[i] \notin Automated

\* two winners were announced where the bot and an automated account had
\* reacted too
C7_Witness ==
  \E w \in Workers : \E m \in Posted(w, "winners") :
    /\ Len(m.winners) = 2
    /\ BOT_USER_ID \in Reacted(resp[w], emoji[gid[w]])
    /\ Automated \cap Reacted(resp[w], emoji[gid[w]]) # {}

\* C8: with W requested winners and E eligible candidates, min(W, E) winners
\* are drawn and announced as selected, E is announced as eligible, and
\* nobody is drawn when E = 0
C8_EffectiveCount ==
  \A w \in Workers :
    LET E == Cardinality(Eligible(w))
        W == winners_count[gid[w]]
    IN /\ \A m \in Posted(w, "winners") :
            /\ E > 0
            /\ Len(m.winners) = Min(W, E)
            /\ m.selected = Min(W, E)
            /\ m.eligible = E
       /\ Posted(w, "no_entries") # {} => E = 0
       /\ pc[w] \in {"write_closed", "return"} /\ E = 0 => Posted(w, "winners") = {}

\* fewer candidates than requested winners: all of them were drawn
C8_Witness ==
  \E w \in Workers : \E m \in Posted(w, "winners") :
    /\ winners_count[gid[w]] = 2
    /\ Cardinality(Eligible(w)) = 1
    /\ m.selected = 1
    /\ failed[w] # {}

\* C9: a conclusion with no eligible candidate whose calls all succeeded has
\* posted 'No valid entries' and nothing else, and the record is closed
C9_NoEntriesClosed ==
  \A w \in Workers :
    pc[w] = "return" /\ raised[w] = {} /\ Eligible(w) = {} =>
      /\ posted[w] = <<Msg("no_entries", << >>, 0, 0)>>
      /\ status[gid[w]] = "closed"

\* C10: when conclude_one is through, the record is closed if none of its
\* calls raised, and error if reactions_get or the result post raised, with
\* the failure notice attempted
C10_Finalized ==
  \A w \in Workers :
    pc[w] = "return" =>
      /\ raised[w] = {} => status[gid[w]] = "closed"
      /\ raised[w] \cap {"reactions_get", "post"} # {} =>
           /\ status[gid[w]] = "error"
           /\ Posted(w, "notice") # {} \/ "notice" \in raised[w]

\* a store or platform call of some worker raises
Raises ==
  \E w \in Workers :
    \/ PollRaise(w)
    \/ ClaimRaise(w)
    \/ ReactionsGetRaise(w)
    \/ PostRaise(w)
    \/ WriteClosedRaise(w)
    \/ PostNoticeRaise(w)
    \/ WriteErrorRaise(w)

Due(g) == status[g] = "open" /\ end_ts[g] <= now

Unfinished(w) ==
  pc[w] \in {"reactions_get", "users_info", "post", "write_closed", "notice", "write_error"}

\* C11: while a worker that claimed a row has not finalized it (and so for
\* good if that worker stops there), the stored status is processing, and no
\* other worker polls, claims or concludes the row
C11_StrandedInProcessing ==
  \A w \in Workers :
    Unfinished(w) =>
      /\ status[gid[w]] = "processing"
      /\ \A v \in Workers \ {w} : gid[w] \notin InHand(v)

\* C12: the scheduler loop never ends: outside an iteration nothing of the
\* last batch is kept, and whatever raised in an iteration, the worker gets
\* to poll again
C12_LoopGoesOn ==
  /\ [](pc[1] \in {"sleep", "poll"} => rows[1] = {} /\ gid[1] = NoGid)
  /\ []<>(pc[1] = "poll")

\* the worker polls again after the exception of a failed error write left
\* conclude_one and the row open
C12_Witness ==
  /\ pc[1] = "poll"
  /\ \E g \in Gids : nconcl[g] >= 1 /\ status[g] = "open"

C20_OneOutcome ==
  \A w \in Workers :
    Posted(w, "notice") # {} \/ wrote[w] = "error" =>
      Posted(w, "winners") = {} /\ Posted(w, "no_entries") = {}

\* ------------------------------------------------- creation flow claims
\* the handler's step on the pending request
HandleStep == req # NoReq /\ req' = NoReq

Stored(g) == status[g] # "none"

\* this step leaves row g as it is
RowSame(g) ==
  /\ status'[g] = status[g]
  /\ end_ts'[g] = end_ts[g]
  /\ winners_count'[g] = winners_count[g]
  /\ emoji'[g] = emoji[g]
  /\ channel_id'[g] = channel_id[g]
  /\ message_ts'[g] = message_ts[g]

\* C13: no two stored records have the same channel_id and message_ts; a
\* creation whose INSERT meets a stored key ends in the constraint violation
\* with every record as it was, and no creation step changes a stored record
C13_UniqueAnnouncement ==
  /\ [](\A g, h \in Gids :
          g # h /\ Stored(g) /\ Stored(h) =>
            <<channel_id[g], message_ts[g]>> # <<channel_id[h], message_ts[h]>>)
  /\ [][HandleStep =>
          /\ \A g \in Gids : Stored(g) => RowSame(g)
          /\ reply' = "UniqueViolation" =>
               /\ \A g \in Gids : RowSame(g)
               /\ \E g \in Gids :
                    Stored(g) /\ <<channel_id[g], message_ts[g]>> \in announcements']_vars

\* an INSERT was refused, and the only record there is has been concluded
C13_Witness ==
  /\ reply = "UniqueViolation"
  /\ \E g \in Gids :
       /\ status[g] \in Final
       /\ \A h \in Gids \ {g} : ~Stored(h)

\* what the request says it is: a duration, a title, a channel
ValidRequest(r) == r.form.seconds > 0 /\ r.form.titled /\ r.channel # NoChannel

\* C14: a valid creation request that got its confirmation has inserted
\* exactly one record: open, ending at the time of the request plus the
\* duration the request gives, keyed by the request's channel and the ts of
\* the announcement this step posted; every other row is as it was
C14_ValidCreationInserts ==
  [][HandleStep /\ ValidRequest(req) /\ reply' = "started" =>
       \E g \in Gids :
         /\ ~Stored(g)
         /\ status'[g] = "open"
         /\ end_ts'[g] = now + req.form.seconds
         /\ channel_id'[g] = req.channel
         /\ announcements' = announcements \cup {<<req.channel, message_ts'[g]>>}
         /\ \A h \in Gids \ {g} : RowSame(h)]_vars

\* a request made at a later time than 0 was confirmed, and its record ends
\* one minute after it
C14_Witness ==
  /\ reply = "started"
  /\ now > 0
  /\ \E g \in Gids :
       /\ status[g] = "open"
       /\ end_ts[g] = now + 60
       /\ <<channel_id[g], message_ts[g]>> \in announcements

\* C15: a request with a zero duration or without a title, by the command or
\* by the modal, leaves the table and the channel as they were
C15_InvalidNoEffect ==
  [][HandleStep /\ (req.form.seconds = 0 \/ ~req.form.titled) =>
       /\ \A g \in Gids : RowSame(g)
       /\ announcements' = announcements
       /\ reply' \in {"modal", "invalid"}]_vars

\* an invalid modal was answered while a giveaway was stored
C15_Witness ==
  /\ reply = "invalid"
  /\ \E g \in Gids : Stored(g)
  /\ announcements # {}

\* n within [1,50]
Clamped(n) == IF n > 50 THEN 50 ELSE IF n < 1 THEN 1 ELSE n

\* the winner count a request asks for
Asked(r) ==
  IF r.kind = "cmd"
  THEN IF r.form.flagged THEN Clamped(r.form.n) ELSE 1
  ELSE IF r.form.isint THEN Clamped(r.form.n) ELSE 1

\* C16: parse_args gives the -w number clamped to [1,50], and 1 without the
\* flag; the modal gives its winners field clamped the same way, and 1 when
\* it is no integer; a record is inserted with that count, so every stored
\* winners_count is in 1..50
C16_WinnersClamped ==
  /\ [](/\ \A f \in CmdForms :
             parse_args(Strip(f.text)).winners = IF f.flagged THEN Clamped(f.n) ELSE 1
        /\ \A f \in ModalForms :
             ModalWinners(f.winners) = IF f.isint THEN Clamped(f.n) ELSE 1
        /\ \A g \in Gids : Stored(g) => winners_count[g] \in 1..50)
  /\ [][HandleStep =>
          \A g \in Gids : ~Stored(g) /\ status'[g] # "none" =>
            winners_count'[g] = Asked(req)]_vars

\* one record was stored with the count cut down to 50, another with 1
C16_Witness ==
  \E g, h \in Gids :
    /\ Stored(g) /\ winners_count[g] = 50
    /\ Stored(h) /\ winners_count[h] = 1

\* the seconds that a piece stands for
PieceSeconds(p) ==
  CASE p.unit = "d" -> p.n * 86400
    [] p.unit = "h" -> p.n * 3600
    [] p.unit = "m" -> p.n * 60
    [] OTHER -> 0

RECURSIVE PiecesSeconds(_)
PiecesSeconds(ps) ==
  IF ps = << >> THEN 0 ELSE PieceSeconds(Head(ps)) + PiecesSeconds(Tail(ps))

\* C17: parse_duration of a text is the sum of its tokens' seconds, whatever
\* stands between them: in every order of the pieces, and as the sum of the
\* results of two parts of the text; "1h1h" is "2h", "1d2h30m" is 95400, and
\* a text without a token gives 0
C17_SumOfTokens ==
  /\ pout.op = "whole" => pout.total = PiecesSeconds(pin)
  /\ pout.op = "reordered" => pout.total = PiecesSeconds(pin)
  /\ pout.op = "parts" => pout.left + pout.right = PiecesSeconds(pin)
  /\ pout.op = "whole" /\ (\A i \in 1..Len(pin) : pin[i].unit = "") => pout.total = 0
  /\ parse_duration(<<"1", "h", "1", "h">>) = parse_duration(<<"2", "h">>)
  /\ parse_duration(<<"1", "d", "2", "h", "3", "0", "m">>) = 95400

\* three tokens, not in the order largest unit first, were parsed in another
\* order to one day, two hours and thirty minutes
C17_Witness ==
  /\ pout.op = "reordered"
  /\ Len(pin) = 3
  /\ pin[1].unit = "m"
  /\ pout.total = 95400

====
